---- MODULE Spec2Model ----
(***************************************************************************)
(* Model of scripts/validate.py, the registry validator.                   *)
(*                                                                         *)
(* Strings whose characters the code inspects (package and directory       *)
(* names) are sequences of one-character strings; strings the code only    *)
(* compares or looks up (field names, licenses, version identifiers) are   *)
(* TLA+ strings.  A JSON object is a function whose DOMAIN is the set of   *)
(* keys present, so `k in d` is k \in DOMAIN d.  An error message is a     *)
(* record naming the message and the values interpolated into it.          *)
(***************************************************************************)
EXTENDS Integers, Sequences, FiniteSets, TLC

VARIABLES pc, registry, args, order, ret, stdout, status

vars == <<pc, registry, args, order, ret, stdout, status>>

(***************************************************************************)
(* Bounds of the model.                                                    *)
(***************************************************************************)
\* most dependency entries in a metadata document
MaxDeps == 2
\* most version directories in a package directory
MaxVersions == 2
\* most entries (directories and plain files) under the registry root
MaxEntries == 2

(***************************************************************************)
(* Module constants of validate.py.                                        *)
(***************************************************************************)
REQUIRED_METADATA_FIELDS ==
    <<"name", "description", "homepage", "license", "repository",
      "default_version", "targets", "maintainers">>

REQUIRED_SOURCE_FIELDS == <<"git_tag", "tested">>

VALID_REPO_TYPES == {"github", "gitlab", "url"}

VALID_LICENSES ==
    {"MIT", "Apache-2.0", "BSD-2-Clause", "BSD-3-Clause", "BSL-1.0",
     "MPL-2.0", "LGPL-2.1", "LGPL-3.0", "GPL-2.0", "GPL-3.0",
     "Unlicense", "ISC", "Zlib", "CC0-1.0"}

\* the limit of len(metadata["description"])
MaxDescriptionLen == 200

Lower == {"a", "b", "c", "d", "e", "f", "g", "h", "i", "j", "k", "l", "m",
          "n", "o", "p", "q", "r", "s", "t", "u", "v", "w", "x", "y", "z"}

Digit == {"0", "1", "2", "3", "4", "5", "6", "7", "8", "9"}

\* NAME_PATTERN.match(name) for re.compile(r"^[a-z][a-z0-9_]*$"): without
\* re.MULTILINE, $ matches at the end of the string and also just before a
\* newline that ends the string.
NAME_PATTERN(name) ==
    LET body == IF Len(name) >= 2 /\ name[Len(name)] = "\n"
                THEN SubSeq(name, 1, Len(name) - 1)
                ELSE name
        Matches(s) == /\ Len(s) >= 1
                      /\ s[1] \in Lower
                      /\ \A i \in 2..Len(s) : s[i] \in Lower \cup Digit \cup {"_"}
    IN  Matches(name) \/ Matches(body)

(***************************************************************************)
(* Error messages: the f-string's fixed text and its interpolated values.  *)
(***************************************************************************)
Err(msg) ==
    [msg |-> msg, field |-> "", version |-> "", value |-> "",
     dir |-> <<>>, name |-> <<>>]

ErrField(msg, f) == [Err(msg) EXCEPT !.field = f]

ErrVersion(msg, v) == [Err(msg) EXCEPT !.version = v]

ErrVersionField(msg, v, f) == [Err(msg) EXCEPT !.version = v, !.field = f]

ErrValue(msg, x) == [Err(msg) EXCEPT !.value = x]

ErrName(msg, n) == [Err(msg) EXCEPT !.name = n]

ErrDir(msg, d) == [Err(msg) EXCEPT !.dir = d]

ErrDirName(msg, d, n) == [Err(msg) EXCEPT !.dir = d, !.name = n]

\* `if cond: errors.append(e)` as the list it contributes
When(cond, e) == IF cond THEN <<e>> ELSE <<>>

\* the concatenation of a sequence of lists, in order
RECURSIVE Flatten(_)
Flatten(lists) ==
    IF lists = <<>> THEN <<>> ELSE Head(lists) \o Flatten(Tail(lists))

(***************************************************************************)
(* validate_metadata(pkg_dir, metadata)                                    *)
(***************************************************************************)
\* MissingMetadataFields with "homepage" left out of the required list
MissingMetadataFieldsNoHomepage(metadata) ==
    LET missing == SelectSeq(<<"name", "description", "license", "repository",
                               "default_version", "targets", "maintainers">>,
                             LAMBDA f : f \notin DOMAIN metadata)
    IN  [i \in 1..Len(missing) |->
            ErrField("metadata.json missing required field", missing[i])]

\* the required-field loop: one error per absent field, in list order
MissingMetadataFields(metadata) ==
    LET missing == SelectSeq(REQUIRED_METADATA_FIELDS,
                             LAMBDA f : f \notin DOMAIN metadata)
    IN  [i \in 1..Len(missing) |->
            ErrField("metadata.json missing required field", missing[i])]

\* NameErrors with the directory check made an elif of the pattern check
NameErrorsElif(dirname, metadata) ==
    IF ~NAME_PATTERN(metadata["name"])
    THEN <<ErrName("Invalid name", metadata["name"])>>
    ELSE When(dirname # metadata["name"],
              ErrDirName("Directory name doesn't match package name",
                         dirname, metadata["name"]))

NameErrors(dirname, metadata) ==
    When(~NAME_PATTERN(metadata["name"]),
         ErrName("Invalid name", metadata["name"]))
    \o When(dirname # metadata["name"],
            ErrDirName("Directory name doesn't match package name",
                       dirname, metadata["name"]))

\* DescriptionErrors with >= for >
DescriptionErrorsOffByOne(metadata) ==
    When(Len(metadata["description"]) >= MaxDescriptionLen,
         Err("Description exceeds 200 characters"))

DescriptionErrors(metadata) ==
    When(Len(metadata["description"]) > MaxDescriptionLen,
         Err("Description exceeds 200 characters"))

LicenseErrors(metadata) ==
    When(metadata["license"] \notin VALID_LICENSES,
         ErrValue("Unknown license", metadata["license"]))

\* RepositoryErrors with the type check an if of its own, not an elif
RepositoryErrorsIf(metadata) ==
    LET repo == metadata["repository"]
    IN  When("type" \notin DOMAIN repo \/ "url" \notin DOMAIN repo,
             Err("Repository must have 'type' and 'url' fields"))
        \o IF "type" \in DOMAIN repo
           THEN When(repo["type"] \notin VALID_REPO_TYPES,
                     ErrValue("Invalid repository type", repo["type"]))
           ELSE <<>>

RepositoryErrors(metadata) ==
    LET repo == metadata["repository"]
    IN  IF "type" \notin DOMAIN repo \/ "url" \notin DOMAIN repo
        THEN <<Err("Repository must have 'type' and 'url' fields")>>
        ELSE When(repo["type"] \notin VALID_REPO_TYPES,
                  ErrValue("Invalid repository type", repo["type"]))

TargetsErrors(metadata) ==
    When(metadata["targets"] = <<>>,
         Err("At least one target must be specified"))

MaintainersErrors(metadata) ==
    When(metadata["maintainers"] = <<>>,
         Err("At least one maintainer is required"))

DependencyErrors(metadata) ==
    IF "dependencies" \in DOMAIN metadata
    THEN LET deps == metadata["dependencies"]
         IN  Flatten([i \in 1..Len(deps) |->
                        When("name" \notin DOMAIN deps[i],
                             Err("Dependency missing 'name' field"))])
    ELSE <<>>

validate_metadata(dirname, metadata) ==
    LET errors == MissingMetadataFields(metadata)
    IN  IF errors # <<>>
        THEN errors
        ELSE NameErrors(dirname, metadata)
             \o DescriptionErrors(metadata)
             \o LicenseErrors(metadata)
             \o RepositoryErrors(metadata)
             \o TargetsErrors(metadata)
             \o MaintainersErrors(metadata)
             \o DependencyErrors(metadata)

(***************************************************************************)
(* validate_source(version, source)                                        *)
(***************************************************************************)
MissingSourceFields(version, source) ==
    LET missing == SelectSeq(REQUIRED_SOURCE_FIELDS,
                             LAMBDA f : f \notin DOMAIN source)
    IN  [i \in 1..Len(missing) |->
            ErrVersionField("source.json missing required field",
                            version, missing[i])]

\* isinstance(v, dict) of a parsed JSON value
IsDict(v) == v.type = "object"

CmakeOptionsErrors(version, source) ==
    IF "cmake_options" \in DOMAIN source
    THEN When(~IsDict(source["cmake_options"]),
              ErrVersion("cmake_options must be an object", version))
    ELSE <<>>

\* validate_source returning after the required-field loop found an error
validate_source_EarlyReturn(version, source) ==
    IF MissingSourceFields(version, source) # <<>>
    THEN MissingSourceFields(version, source)
    ELSE CmakeOptionsErrors(version, source)

validate_source(version, source) ==
    MissingSourceFields(version, source) \o CmakeOptionsErrors(version, source)

(***************************************************************************)
(* The files on disk.  A package directory holds metadata.json (absent,    *)
(* not parseable, or a parsed JSON object) and version directories, each   *)
(* holding source.json (absent, not parseable, or a parsed JSON object).   *)
(* The registry root holds package directories and plain files.            *)
(***************************************************************************)
AbsentFile == [state |-> "absent", doc |-> <<>>]

InvalidFile == [state |-> "invalid", doc |-> <<>>]

JsonFile(doc) == [state |-> "json", doc |-> doc]

\* the orders in which Path.iterdir() may yield the entries of a directory
iterdir(entries) ==
    {l \in [1..Cardinality(entries) -> entries] :
        \A i, j \in 1..Cardinality(entries) : i # j => l[i] # l[j]}

\* the entries of a package directory the code has found metadata.json in
PackageEntries(pkg) == {"metadata.json"} \cup DOMAIN pkg.versions

\* get_version_dirs(pkg_dir): the sub-directories, in each order iterdir()
\* may yield them (metadata.json is a file and is filtered out)
get_version_dirs(pkg) ==
    {SelectSeq(l, LAMBDA e : e \in DOMAIN pkg.versions) :
        l \in iterdir(PackageEntries(pkg))}

(***************************************************************************)
(* validate_package(pkg_dir), with version_dirs the list get_version_dirs  *)
(* returned.                                                               *)
(***************************************************************************)
\* one iteration of the loop over version_dirs
VersionErrors(pkg, version) ==
    LET source == pkg.versions[version]
    IN  IF source.state = "absent"
        THEN <<ErrVersion("missing source.json", version)>>
        ELSE IF source.state = "invalid"
        THEN <<ErrVersion("invalid JSON in source.json", version)>>
        ELSE validate_source(version, source.doc)

\* VersionsFound with the append moved after the source.json checks
VersionsFoundParsedOnly(pkg, version_dirs) ==
    SelectSeq(version_dirs, LAMBDA v : pkg.versions[v].state = "json")

\* versions_found after the loop: version is appended at the top of every
\* iteration, before source.json is looked at
VersionsFound(pkg, version_dirs) == version_dirs

InSeq(x, s) == \E i \in 1..Len(s) : s[i] = x

DefaultVersionErrors(metadata, versions_found) ==
    IF "default_version" \in DOMAIN metadata
    THEN When(~InSeq(metadata["default_version"], versions_found),
              ErrValue("default_version not found in version directories",
                       metadata["default_version"]))
    ELSE <<>>

\* VersionLoopErrors with `break` for `continue`: the loop ends at the first
\* version whose source.json is missing or does not parse
RECURSIVE VersionLoopErrorsBreak(_, _)
VersionLoopErrorsBreak(pkg, version_dirs) ==
    IF version_dirs = <<>> THEN <<>>
    ELSE IF pkg.versions[Head(version_dirs)].state = "json"
    THEN VersionErrors(pkg, Head(version_dirs))
         \o VersionLoopErrorsBreak(pkg, Tail(version_dirs))
    ELSE VersionErrors(pkg, Head(version_dirs))

VersionLoopErrors(pkg, version_dirs) ==
    Flatten([i \in 1..Len(version_dirs) |-> VersionErrors(pkg, version_dirs[i])])

\* validate_package with the default_version check ahead of the version loop
validate_package_DefaultFirst(dirname, pkg, version_dirs) ==
    IF pkg.metadata.state = "absent"
    THEN <<ErrDir("Missing metadata.json in", dirname)>>
    ELSE IF pkg.metadata.state = "invalid"
    THEN <<Err("Invalid JSON in metadata.json")>>
    ELSE LET metadata == pkg.metadata.doc
             errors == validate_metadata(dirname, metadata)
         IN  IF version_dirs = <<>>
             THEN errors \o <<Err("At least one version directory is required")>>
             ELSE errors
                  \o DefaultVersionErrors(metadata,
                                          VersionsFound(pkg, version_dirs))
                  \o VersionLoopErrors(pkg, version_dirs)

validate_package(dirname, pkg, version_dirs) ==
    IF pkg.metadata.state = "absent"
    THEN <<ErrDir("Missing metadata.json in", dirname)>>
    ELSE IF pkg.metadata.state = "invalid"
    THEN <<Err("Invalid JSON in metadata.json")>>
    ELSE LET metadata == pkg.metadata.doc
             errors == validate_metadata(dirname, metadata)
         IN  IF version_dirs = <<>>
             THEN errors \o <<Err("At least one version directory is required")>>
             ELSE errors
                  \o VersionLoopErrors(pkg, version_dirs)
                  \o DefaultVersionErrors(metadata,
                                          VersionsFound(pkg, version_dirs))

\* whether validate_package gets as far as listing the package directory
ListsVersions(pkg) == pkg.metadata.state = "json"

\* the lists get_version_dirs may return to validate_package; none is asked
\* for when the function returns before the call
VersionDirChoices(pkg) ==
    IF ListsVersions(pkg) THEN get_version_dirs(pkg) ELSE {<<>>}

(***************************************************************************)
(* validate_all() and main()                                               *)
(***************************************************************************)
\* "--all" as sys.argv[1]
ALL_FLAG == <<"-", "-", "a", "l", "l">>

\* sys.argv[0]
PROGRAM == <<"v">>

\* ord(c) of the characters that occur in the names of the model
CodePoint(c) ==
    CASE c = "\n" -> 10 [] c = "-" -> 45 [] c = "1" -> 49 [] c = "2" -> 50
      [] c = "A" -> 65 [] c = "_" -> 95 [] c = "a" -> 97 [] c = "b" -> 98
      [] c = "l" -> 108 [] c = "v" -> 118

\* s < t of two Python strings: by code point, a proper prefix first
StrLess(s, t) ==
    \E k \in 0..Len(s) :
        /\ k <= Len(t)
        /\ \A i \in 1..k : s[i] = t[i]
        /\ \/ k = Len(s) /\ k < Len(t)
           \/ k < Len(s) /\ k < Len(t) /\ CodePoint(s[k + 1]) < CodePoint(t[k + 1])

\* one step of sorting: item put before the first item with a greater key
RECURSIVE InsertSorted(_, _)
InsertSorted(item, items) ==
    IF items = <<>> THEN <<item>>
    ELSE IF StrLess(item.key, Head(items).key) THEN <<item>> \o items
    ELSE <<Head(items)>> \o InsertSorted(item, Tail(items))

\* sorted left out: the items in insertion order
sortedInsertionOrder(items) == items

\* sorted(results.items()): the keys of a dict are distinct, so the (key,
\* value) pairs are ordered by key alone
RECURSIVE sorted(_)
sorted(items) ==
    IF items = <<>> THEN <<>>
    ELSE InsertSorted(items[Len(items)], sorted(SubSeq(items, 1, Len(items) - 1)))

\* the entries of the registry root
RootEntries(reg) == DOMAIN reg.dirs \cup reg.files

\* [p for p in REGISTRY_DIR.iterdir() if p.is_dir()], in each order
\* iterdir() may yield them
PackageDirs(reg) ==
    {SelectSeq(l, LAMBDA e : e \in DOMAIN reg.dirs) : l \in iterdir(RootEntries(reg))}

\* the (key, value) pairs of the dict validate_all returns, in insertion
\* order: the packages with errors, in the order pkg_dirs was walked
validate_all(reg, pkg_dirs, version_dirs) ==
    Flatten([i \in 1..Len(pkg_dirs) |->
        LET errors == validate_package(pkg_dirs[i], reg.dirs[pkg_dirs[i]],
                                       version_dirs[pkg_dirs[i]])
        IN  When(errors # <<>>, [key |-> pkg_dirs[i], value |-> errors])])

\* PkgCount without the is_dir() filter
PkgCountAllEntries(reg) == Cardinality(RootEntries(reg))

\* sum(1 for p in REGISTRY_DIR.iterdir() if p.is_dir())
PkgCount(reg) == Cardinality({e \in RootEntries(reg) : e \in DOMAIN reg.dirs})

\* a printed line: its fixed text and the values interpolated into it
Line(text) ==
    [text |-> text, pkg |-> <<>>, error |-> Err(""), x |-> 0, y |-> 0]

LinePkg(text, pkg) == [Line(text) EXCEPT !.pkg = pkg]

LineError(error) == [Line("- error") EXCEPT !.error = error]

LineCount(text, x, y) == [Line(text) EXCEPT !.x = x, !.y = y]

LinePkgCount(text, pkg, x) == [Line(text) EXCEPT !.pkg = pkg, !.x = x]

ErrorLines(errors) == [i \in 1..Len(errors) |-> LineError(errors[i])]

\* the report of the failing packages: sorted by name, each with its errors
ReportLines(results) ==
    LET items == sorted(results)
    IN  Flatten([i \in 1..Len(items) |->
            <<LinePkg("package:", items[i].key)>> \o ErrorLines(items[i].value)])

\* what a run leaves behind: the lines printed, the exit status, and the
\* value validate_all or validate_package returned (<<>> when not called)
Outcome(lines, code, value) == [stdout |-> lines, status |-> code, ret |-> value]

\* main(), the --all branch
MainAllOutcome(reg, pkg_dirs, version_dirs) ==
    IF ~reg.exists
    THEN Outcome(<<Line("Registry directory not found")>>, 1, <<>>)
    ELSE LET results == validate_all(reg, pkg_dirs, version_dirs)
             pkg_count == PkgCount(reg)
         IN  IF results # <<>>
             THEN Outcome(<<Line("Validation errors found:")>>
                          \o ReportLines(results)
                          \o <<LineCount("X/Y packages valid",
                                         pkg_count - Len(results), pkg_count)>>,
                          1, results)
             ELSE Outcome(<<LineCount("All Y packages valid!", 0, pkg_count)>>,
                          0, results)

\* what REGISTRY_DIR / pkg_name is: a package directory, or a plain file,
\* in which no metadata.json and no sub-directory exists
NotADirectory == [metadata |-> AbsentFile, versions |-> <<>>]

PathExists(reg, pkg_name) == reg.exists /\ pkg_name \in RootEntries(reg)

PackageAt(reg, pkg_name) ==
    IF pkg_name \in DOMAIN reg.dirs THEN reg.dirs[pkg_name] ELSE NotADirectory

\* main(), the single-package branch
MainPackageOutcome(reg, pkg_name, version_dirs) ==
    IF ~PathExists(reg, pkg_name)
    THEN Outcome(<<LinePkg("Package not found", pkg_name)>>, 1, <<>>)
    ELSE LET errors == validate_package(pkg_name, PackageAt(reg, pkg_name),
                                        version_dirs)
         IN  IF errors # <<>>
             THEN Outcome(<<LinePkg("Validation errors for", pkg_name)>>
                          \o ErrorLines(errors), 1, errors)
             ELSE Outcome(<<LinePkgCount("is valid! (N versions)", pkg_name,
                                         Len(version_dirs))>>, 0, errors)

(***************************************************************************)
(* The documents and directories the runs are given.                       *)
(***************************************************************************)
\* a string of n characters
Text(n) == [i \in 1..n |-> "x"]

\* a key of a JSON object: absent (<<>>) or present with a value of S
Opt(S) == {<<>>} \cup {<<v>> : v \in S}

\* the JSON objects of a set of choices, one Opt per key
Objects(choices) ==
    {[k \in {f \in DOMAIN c : c[f] # <<>>} |-> c[k][1]] : c \in choices}

\* the sequences over S of at most n elements
SeqsUpTo(S, n) == UNION {[1..k -> S] : k \in 0..n}

NameAb == <<"a", "b">>

NameB2 == <<"b", "_", "2">>

NameUpper == <<"A", "b">>

NameDigit == <<"2", "b">>

NameNewline == <<"a", "b", "\n">>

\* a dependency entry with a name, and one without
Dependencies == {[name |-> "fmt"], [version |-> "1.0"]}

Repositories ==
    Objects([type : Opt({"github", "svn"}), url : Opt({"https://r"})])

\* the metadata documents with a dependency list of at most n entries: each
\* key absent or present, with valid and invalid values
MetadataDocs(n) ==
    Objects([name : Opt({NameAb, NameB2, NameUpper, NameDigit, NameNewline}),
             description : Opt({Text(MaxDescriptionLen),
                                Text(MaxDescriptionLen + 1)}),
             homepage : Opt({"https://h"}),
             license : Opt({"MIT", "WTFPL"}),
             repository : Opt(Repositories),
             default_version : Opt({"1.0", "2.0"}),
             targets : Opt({<<>>, <<"lib">>}),
             maintainers : Opt({<<>>, <<"me">>}),
             dependencies : Opt(SeqsUpTo(Dependencies, n))])

\* a parsed JSON value, by its type
Json(type) == [type |-> type]

SourceDocs ==
    Objects([git_tag : Opt({Json("string")}),
             tested : Opt({Json("boolean"), Json("string")}),
             cmake_options : Opt({Json("object"), Json("array"),
                                  Json("string"), Json("null")})])

Versions == {"1.0", "2.0", "3.0"}

\* the metadata documents of the package runs: the keys and values the
\* package-level checks read vary, the rest is present and valid
PackageMetadataDocs ==
    Objects([name : Opt({NameAb, NameUpper}),
             description : {<<Text(MaxDescriptionLen)>>,
                            <<Text(MaxDescriptionLen + 1)>>},
             homepage : {<<"https://h">>},
             license : Opt({"MIT", "WTFPL"}),
             repository : {<<[type |-> "github", url |-> "https://r"]>>},
             default_version : Opt({"1.0", "2.0"}),
             targets : {<<(<<"lib">>)>>},
             maintainers : {<<(<<"me">>)>>},
             dependencies : Opt({<<[name |-> "fmt"]>>, <<[version |-> "1.0"]>>})])

MetadataFiles(docs) == {AbsentFile, InvalidFile} \cup {JsonFile(d) : d \in docs}

PackageSourceFiles ==
    {AbsentFile, InvalidFile,
     JsonFile([git_tag |-> Json("string"), tested |-> Json("boolean")]),
     JsonFile([git_tag |-> Json("string")]),
     JsonFile([git_tag |-> Json("string"), tested |-> Json("boolean"),
               cmake_options |-> Json("array")]),
     JsonFile([git_tag |-> Json("string"), tested |-> Json("boolean"),
               cmake_options |-> Json("object")])}

\* the version directories of a package: at most n, each with a source.json
VersionDirs(sources, n) ==
    UNION {[V -> sources] : V \in {W \in SUBSET Versions : Cardinality(W) <= n}}

Packages(metadata_files, version_dirs) ==
    [metadata : metadata_files, versions : version_dirs]

\* the registry the single-function runs do not read
NoRegistry == [exists |-> FALSE, dirs |-> <<>>, files |-> {}]

\* a registry holding one package directory
RegistryOf(dirname, pkg) ==
    [exists |-> TRUE, dirs |-> [d \in {dirname} |-> pkg], files |-> {}]

NoOrder == [root |-> <<>>, versions |-> <<>>]

(***************************************************************************)
(* Runs of validate_source.                                                *)
(***************************************************************************)
InitSource ==
    /\ pc = "ready"
    /\ args \in [version : Versions, source : SourceDocs]
    /\ registry = NoRegistry
    /\ order = NoOrder
    /\ ret = <<>>
    /\ stdout = <<>>
    /\ status = -1

ValidateSource ==
    /\ pc = "ready"
    /\ pc' = "done"
    /\ ret' = validate_source(args.version, args.source)
    /\ UNCHANGED <<registry, args, order, stdout, status>>

SpecSource == InitSource /\ [][ValidateSource]_vars

(***************************************************************************)
(* Runs of validate_metadata.                                              *)
(***************************************************************************)
InitMetadata ==
    /\ pc = "ready"
    /\ args \in [pkg_dir : {NameAb, NameUpper}, metadata : MetadataDocs(MaxDeps)]
    /\ registry = NoRegistry
    /\ order = NoOrder
    /\ ret = <<>>
    /\ stdout = <<>>
    /\ status = -1

ValidateMetadata ==
    /\ pc = "ready"
    /\ pc' = "done"
    /\ ret' = validate_metadata(args.pkg_dir, args.metadata)
    /\ UNCHANGED <<registry, args, order, stdout, status>>

SpecMetadata == InitMetadata /\ [][ValidateMetadata]_vars

(***************************************************************************)
(* Runs of validate_package.                                               *)
(***************************************************************************)
InitPackage ==
    /\ pc = "ready"
    /\ \E dirname \in {NameAb, NameUpper} :
       \E pkg \in Packages(MetadataFiles(PackageMetadataDocs),
                           VersionDirs(PackageSourceFiles, MaxVersions)) :
          /\ registry = RegistryOf(dirname, pkg)
          /\ args = [pkg_dir |-> dirname]
    /\ order = NoOrder
    /\ ret = <<>>
    /\ stdout = <<>>
    /\ status = -1

ValidatePackage ==
    /\ pc = "ready"
    /\ pc' = "done"
    /\ LET pkg == registry.dirs[args.pkg_dir]
       IN  \E version_dirs \in VersionDirChoices(pkg) :
              /\ ret' = validate_package(args.pkg_dir, pkg, version_dirs)
              /\ order' = [root |-> <<>>,
                           versions |-> [d \in {args.pkg_dir} |-> version_dirs]]
    /\ UNCHANGED <<registry, args, stdout, status>>

SpecPackage == InitPackage /\ [][ValidatePackage]_vars

(***************************************************************************)
(* Runs of main().                                                         *)
(***************************************************************************)
\* a metadata document with no errors for the directory `name`
ValidMetadata(name) ==
    [name |-> name, description |-> Text(1), homepage |-> "https://h",
     license |-> "MIT",
     repository |-> [type |-> "github", url |-> "https://r"],
     default_version |-> "1.0", targets |-> <<"lib">>,
     maintainers |-> <<"me">>]

RegistryMetadataFiles ==
    {AbsentFile, JsonFile(ValidMetadata(NameAb)), JsonFile(ValidMetadata(NameB2)),
     JsonFile([ValidMetadata(NameAb) EXCEPT !.license = "WTFPL"])}

ValidSource == JsonFile([git_tag |-> Json("string"), tested |-> Json("boolean")])

RegistryVersionDirs ==
    {<<>>,
     [v \in {"1.0"} |-> ValidSource],
     [v \in {"1.0", "2.0"} |-> IF v = "1.0" THEN ValidSource ELSE AbsentFile]}

\* the names an entry of the registry root, or sys.argv[1], may have
EntryNames == {NameAb, NameB2, NameUpper}

\* the registries whose root exists and holds the package directories D and
\* the plain files F
RegistriesOf(D, F) ==
    [exists : {TRUE},
     dirs : [D -> Packages(RegistryMetadataFiles, RegistryVersionDirs)],
     files : {F}]

\* the registry root is absent, or holds at most MaxEntries entries, each a
\* plain file or a package directory
Init ==
    /\ pc = "ready"
    /\ \/ registry = NoRegistry
       \/ \E D \in SUBSET EntryNames :
          \E F \in SUBSET (EntryNames \ D) :
             /\ Cardinality(D \cup F) <= MaxEntries
             /\ registry \in RegistriesOf(D, F)
    /\ args = <<>>
    /\ order = NoOrder
    /\ ret = <<>>
    /\ stdout = <<>>
    /\ status = -1

\* the lists get_version_dirs may return for each of the directories dirs
VersionDirsFor(reg, dirs) ==
    {f \in [dirs -> UNION {VersionDirChoices(PackageAt(reg, d)) : d \in dirs}] :
        \A d \in dirs : f[d] \in VersionDirChoices(PackageAt(reg, d))}

Finish(argv, outcome, root, version_dirs) ==
    /\ pc' = "done"
    /\ args' = argv
    /\ stdout' = outcome.stdout
    /\ status' = outcome.status
    /\ ret' = outcome.ret
    /\ order' = [root |-> root, versions |-> version_dirs]
    /\ UNCHANGED registry

\* python validate.py
MainUsage ==
    /\ pc = "ready"
    /\ Finish(<<PROGRAM>>,
              Outcome(<<Line("Usage: python validate.py [package_name | --all]")>>,
                      1, <<>>),
              <<>>, <<>>)

\* python validate.py --all
MainAll ==
    /\ pc = "ready"
    /\ IF registry.exists
       THEN \E pkg_dirs \in PackageDirs(registry) :
            \E version_dirs \in VersionDirsFor(registry, DOMAIN registry.dirs) :
               Finish(<<PROGRAM, ALL_FLAG>>,
                      MainAllOutcome(registry, pkg_dirs, version_dirs),
                      pkg_dirs, version_dirs)
       ELSE Finish(<<PROGRAM, ALL_FLAG>>,
                   MainAllOutcome(registry, <<>>, <<>>), <<>>, <<>>)

\* python validate.py <package_name>
MainPackage ==
    /\ pc = "ready"
    /\ \E pkg_name \in EntryNames :
          IF PathExists(registry, pkg_name)
          THEN \E version_dirs \in VersionDirsFor(registry, {pkg_name}) :
                  Finish(<<PROGRAM, pkg_name>>,
                         MainPackageOutcome(registry, pkg_name,
                                            version_dirs[pkg_name]),
                         <<>>, version_dirs)
          ELSE Finish(<<PROGRAM, pkg_name>>,
                      MainPackageOutcome(registry, pkg_name, <<>>), <<>>, <<>>)

Next == MainUsage \/ MainAll \/ MainPackage

Spec == Init /\ [][Next]_vars

(***************************************************************************)
(* Properties.                                                             *)
(***************************************************************************)
Done == pc = "done"

\* how many elements of the list s satisfy Test
CountIf(s, Test(_)) == Cardinality({i \in 1..Len(s) : Test(s[i])})

CountOf(s, e) == CountIf(s, LAMBDA x : x = e)

HasMsg(s, msg) == \E i \in 1..Len(s) : s[i].msg = msg

RequiredMetadataKeys ==
    {"name", "description", "homepage", "license", "repository",
     "default_version", "targets", "maintainers"}

\* the package a validate_package run is given, and its metadata document
ThePackage == registry.dirs[args.pkg_dir]

TheMetadata == ThePackage.metadata.doc

MetadataParsed == Done /\ ThePackage.metadata.state = "json"

MismatchMsg == "Directory name doesn't match package name"

DefaultMsg == "default_version not found in version directories"

NoVersionsMsg == "At least one version directory is required"

ConformantMetadata(dirname, m) ==
    /\ RequiredMetadataKeys \subseteq DOMAIN m
    /\ NAME_PATTERN(m.name)
    /\ dirname = m.name
    /\ Len(m.description) <= 200
    /\ m.license \in VALID_LICENSES
    /\ {"type", "url"} \subseteq DOMAIN m.repository
    /\ m.repository.type \in {"github", "gitlab", "url"}
    /\ m.targets # <<>>
    /\ m.maintainers # <<>>
    /\ "dependencies" \in DOMAIN m =>
          \A i \in 1..Len(m.dependencies) : "name" \in DOMAIN m.dependencies[i]

ConformantSource(file) ==
    /\ file.state = "json"
    /\ {"git_tag", "tested"} \subseteq DOMAIN file.doc
    /\ "cmake_options" \in DOMAIN file.doc => file.doc.cmake_options.type = "object"

ConformantPackage(dirname, pkg) ==
    /\ pkg.metadata.state = "json"
    /\ ConformantMetadata(dirname, pkg.metadata.doc)
    /\ DOMAIN pkg.versions # {}
    /\ \A v \in DOMAIN pkg.versions : ConformantSource(pkg.versions[v])
    /\ pkg.metadata.doc.default_version \in DOMAIN pkg.versions

\* C1: validate_package returns an empty error list for every package that
\* matches the full schema.
C1_ConformantPackageHasNoErrors ==
    (Done /\ ConformantPackage(args.pkg_dir, ThePackage)) => ret = <<>>

C1_Witness ==
    /\ Done
    /\ ConformantPackage(args.pkg_dir, ThePackage)
    /\ Cardinality(DOMAIN ThePackage.versions) >= 2
    /\ "dependencies" \in DOMAIN TheMetadata
    /\ Len(TheMetadata.description) = 200
    /\ \E v \in DOMAIN ThePackage.versions :
          "cmake_options" \in DOMAIN ThePackage.versions[v].doc
    /\ ret = <<>>

\* the metadata parsed and declares a name other than the directory's
DeclaresOtherName ==
    /\ MetadataParsed
    /\ "name" \in DOMAIN TheMetadata
    /\ TheMetadata.name # args.pkg_dir

\* exactly one mismatch error in the returned list, citing both values
OneMismatchError ==
    /\ CountIf(ret, LAMBDA e : e.msg = MismatchMsg) = 1
    /\ CountOf(ret, ErrDirName(MismatchMsg, args.pkg_dir, TheMetadata.name)) = 1

\* C2, as claimed: whenever the directory name differs from the declared name,
\* validate_package's list holds exactly one mismatch error, also when other
\* required fields are missing.
C2_MismatchAlwaysReported == DeclaresOtherName => OneMismatchError

\* C2, amended: when the directory name differs from the declared name, the
\* list holds exactly one mismatch error (citing both values) if all required
\* fields are present, whatever else is wrong, and no mismatch error if a
\* required field is missing.
C2_MismatchReportedWhenFieldsPresent ==
    DeclaresOtherName =>
        IF RequiredMetadataKeys \subseteq DOMAIN TheMetadata
        THEN OneMismatchError
        ELSE ~HasMsg(ret, MismatchMsg)

C2_Witness ==
    /\ DeclaresOtherName
    /\ RequiredMetadataKeys \subseteq DOMAIN TheMetadata
    /\ TheMetadata.license \notin VALID_LICENSES
    /\ ~NAME_PATTERN(TheMetadata.name)
    /\ \E v \in DOMAIN ThePackage.versions : ThePackage.versions[v].state = "absent"
    /\ OneMismatchError

\* the metadata parsed, declares default_version, and the version loop ran
DefaultChecked ==
    /\ MetadataParsed
    /\ DOMAIN ThePackage.versions # {}
    /\ "default_version" \in DOMAIN TheMetadata

\* the version directories whose source.json exists and parses
ParsedVersions ==
    {v \in DOMAIN ThePackage.versions : ThePackage.versions[v].state = "json"}

DefaultError == ErrValue(DefaultMsg, TheMetadata.default_version)

\* C3, as claimed: a version counts as found only if its source.json exists
\* and parses, so a default_version that names no such version is reported as
\* not found.
C3_DefaultNeedsParsedSource ==
    (DefaultChecked /\ TheMetadata.default_version \notin ParsedVersions)
        => CountOf(ret, DefaultError) = 1

\* C3, amended: every version directory counts as found, whether or not its
\* source.json exists and parses; after the loop the list holds a
\* default_version-not-found error exactly when default_version is declared
\* and names no version directory.
C3_DefaultNeedsVersionDirectory ==
    DefaultChecked =>
        CountOf(ret, DefaultError) =
            IF TheMetadata.default_version \in DOMAIN ThePackage.versions
            THEN 0 ELSE 1

C3_Witness ==
    /\ DefaultChecked
    /\ TheMetadata.default_version \in DOMAIN ThePackage.versions
    /\ ThePackage.versions[TheMetadata.default_version].state = "absent"
    /\ ~HasMsg(ret, DefaultMsg)
    /\ CountOf(ret, ErrVersion("missing source.json",
                               TheMetadata.default_version)) = 1

\* the required fields the metadata document of a validate_metadata run lacks
MissingKeys == {f \in RequiredMetadataKeys : f \notin DOMAIN args.metadata}

\* C4: for a metadata document missing required fields, validate_metadata
\* returns exactly one 'missing required field' error per missing field,
\* naming it, and nothing else.
C4_OnlyMissingFieldErrors ==
    (Done /\ MissingKeys # {}) =>
        /\ Len(ret) = Cardinality(MissingKeys)
        /\ \A f \in MissingKeys :
              CountOf(ret, ErrField("metadata.json missing required field", f)) = 1

C4_Witness ==
    /\ Done
    /\ MissingKeys = {"homepage"}
    /\ ~NAME_PATTERN(args.metadata.name)
    /\ args.metadata.name # args.pkg_dir
    /\ Len(args.metadata.description) > 200
    /\ args.metadata.license \notin VALID_LICENSES
    /\ DOMAIN args.metadata.repository = {}
    /\ args.metadata.targets = <<>>
    /\ args.metadata.maintainers = <<>>
    /\ "dependencies" \in DOMAIN args.metadata
    /\ \E i \in 1..Len(args.metadata.dependencies) :
          "name" \notin DOMAIN args.metadata.dependencies[i]
    /\ Len(ret) = 1

\* the required fields the source document of a validate_source run lacks
MissingSourceKeys == {f \in {"git_tag", "tested"} : f \notin DOMAIN args.source}

BadCmakeOptions ==
    /\ "cmake_options" \in DOMAIN args.source
    /\ args.source.cmake_options.type # "object"

\* C6: validate_source returns exactly one error per absent field of
\* {git_tag, tested}, each carrying the version identifier, plus exactly one
\* cmake_options error iff cmake_options is present and not a mapping, and no
\* other error; the cmake_options check runs even when fields are missing.
C6_SourceErrorsExact ==
    Done =>
        /\ \A f \in MissingSourceKeys :
              CountOf(ret, ErrVersionField("source.json missing required field",
                                           args.version, f)) = 1
        /\ CountOf(ret, ErrVersion("cmake_options must be an object",
                                   args.version))
              = IF BadCmakeOptions THEN 1 ELSE 0
        /\ Len(ret) = Cardinality(MissingSourceKeys)
                        + IF BadCmakeOptions THEN 1 ELSE 0

C6_Witness ==
    /\ Done
    /\ MissingSourceKeys = {"git_tag", "tested"}
    /\ BadCmakeOptions
    /\ Len(ret) = 3

\* the metadata document of a validate_metadata run has every required field
AllRequiredPresent == Done /\ MissingKeys = {}

TheRepository == args.metadata.repository

MissingRepoKeysError == Err("Repository must have 'type' and 'url' fields")

HasInvalidType ==
    /\ "type" \in DOMAIN TheRepository
    /\ TheRepository.type \notin {"github", "gitlab", "url"}

InvalidTypeError == ErrValue("Invalid repository type", TheRepository.type)

\* C10, as claimed: with all required fields present, a repository lacking
\* type or url is reported, and a type outside {github, gitlab, url} is
\* reported whenever repository has a type key, also when url is missing.
C10_InvalidTypeAlwaysReported ==
    AllRequiredPresent =>
        /\ ~({"type", "url"} \subseteq DOMAIN TheRepository)
              => CountOf(ret, MissingRepoKeysError) = 1
        /\ HasInvalidType => CountOf(ret, InvalidTypeError) = 1

\* C10, amended: with all required fields present, a repository lacking type
\* or url gets the missing-keys error and no invalid-type error, even if its
\* type is invalid; a repository with both keys gets an invalid-type error
\* exactly when its type is outside {github, gitlab, url}.
C10_InvalidTypeReportedWhenBothKeys ==
    AllRequiredPresent =>
        IF {"type", "url"} \subseteq DOMAIN TheRepository
        THEN /\ CountOf(ret, MissingRepoKeysError) = 0
             /\ CountIf(ret, LAMBDA e : e.msg = "Invalid repository type")
                   = IF HasInvalidType THEN 1 ELSE 0
             /\ HasInvalidType => CountOf(ret, InvalidTypeError) = 1
        ELSE /\ CountOf(ret, MissingRepoKeysError) = 1
             /\ CountIf(ret, LAMBDA e : e.msg = "Invalid repository type") = 0

C10_Witness ==
    /\ AllRequiredPresent
    /\ HasInvalidType
    /\ "url" \notin DOMAIN TheRepository
    /\ CountOf(ret, MissingRepoKeysError) = 1
    /\ ~HasMsg(ret, "Invalid repository type")

\* a finished `validate.py --all` run
AllRun == Done /\ args = <<PROGRAM, ALL_FLAG>>

\* the package directories validate_package returns errors for, with the
\* version directories listed in the order the run listed them
FailingPackages ==
    {d \in DOMAIN registry.dirs :
        validate_package(d, registry.dirs[d], order.versions[d]) # <<>>}

\* C5: an --all run exits 0 iff no package directory has errors; otherwise it
\* exits 1 and the summary line reads X/Y, Y the number of package
\* directories and X = Y minus the number of packages with errors, so
\* 0 <= X < Y.  A missing registry root exits 1 with nothing validated or
\* reported.
C5_ExitStatusAndSummary ==
    AllRun =>
        IF ~registry.exists
        THEN /\ status = 1
             /\ stdout = <<Line("Registry directory not found")>>
             /\ order.root = <<>>
             /\ ret = <<>>
        ELSE LET Y == Cardinality(DOMAIN registry.dirs)
                 X == Y - Cardinality(FailingPackages)
             IN  /\ status \in {0, 1}
                 /\ status = 0 <=> FailingPackages = {}
                 /\ status = 1 =>
                       /\ stdout[Len(stdout)] = LineCount("X/Y packages valid", X, Y)
                       /\ 0 <= X
                       /\ X < Y

C5_Witness ==
    /\ AllRun
    /\ registry.exists
    /\ registry.files # {}
    /\ Cardinality(DOMAIN registry.dirs) >= 1
    /\ Cardinality(FailingPackages) = 1
    /\ status = 1
    /\ stdout[Len(stdout)].y = Cardinality(DOMAIN registry.dirs)

Keys(items) == {items[i].key : i \in 1..Len(items)}

\* the package names the report lists, in the order it lists them
ReportedPackages ==
    LET lines == SelectSeq(stdout, LAMBDA l : l.text = "package:")
    IN  [i \in 1..Len(lines) |-> lines[i].pkg]

\* C7: the set of packages validate_all reports as invalid is the same for
\* every order in which the package directories and each package's version
\* directories are iterated, and the --all report lists the failing packages
\* in ascending name order whatever the iteration order.
C7_OrderInsensitive ==
    (AllRun /\ registry.exists) =>
        LET orders == PackageDirs(registry)
            listings == VersionDirsFor(registry, DOMAIN registry.dirs)
            failing == Keys(ret)
        IN  /\ \A pkg_dirs \in orders :
               \A version_dirs \in listings :
                  Keys(validate_all(registry, pkg_dirs, version_dirs)) = failing
            /\ Len(ReportedPackages) = Len(ret)
            /\ {ReportedPackages[i] : i \in 1..Len(ret)} = failing
            /\ \A i \in 1..(Len(ret) - 1) :
                  StrLess(ReportedPackages[i], ReportedPackages[i + 1])

C7_Witness ==
    /\ AllRun
    /\ Len(ret) >= 2
    /\ StrLess(ret[2].key, ret[1].key)
    /\ StrLess(ReportedPackages[1], ReportedPackages[2])
    /\ \E d \in DOMAIN registry.dirs :
          Cardinality(VersionDirChoices(registry.dirs[d])) >= 2

\* the order in which a validate_package run iterated the version directories
TheVersionDirs == order.versions[args.pkg_dir]

\* the errors of the returned list that carry the version identifier v
ErrorsOfVersion(v) == SelectSeq(ret, LAMBDA e : e.version = v)

\* what one version directory contributes when it is processed
ExpectedOfVersion(v) ==
    LET source == ThePackage.versions[v]
    IN  CASE source.state = "absent" -> <<ErrVersion("missing source.json", v)>>
          [] source.state = "invalid" -> <<ErrVersion("invalid JSON in source.json", v)>>
          [] source.state = "json" -> validate_source(v, source.doc)

\* C8: validate_package stops early only when metadata.json is absent (one
\* error), unparseable (one error), or there is no version directory
\* (metadata errors, then 'At least one version directory is required', no
\* default_version error).  Otherwise every version directory is processed:
\* a missing or unparseable source.json adds one error for that version and
\* the other versions and the default_version check still run, and so they do
\* when the metadata has errors.
C8_EarlyExitsOnly ==
    Done =>
        CASE ThePackage.metadata.state = "absent" ->
                ret = <<ErrDir("Missing metadata.json in", args.pkg_dir)>>
          [] ThePackage.metadata.state = "invalid" ->
                ret = <<Err("Invalid JSON in metadata.json")>>
          [] ThePackage.metadata.state = "json" ->
                LET errors == validate_metadata(args.pkg_dir, TheMetadata)
                IN  /\ Len(ret) >= Len(errors)
                    /\ SubSeq(ret, 1, Len(errors)) = errors
                    /\ IF DOMAIN ThePackage.versions = {}
                       THEN /\ ret = errors \o <<Err(NoVersionsMsg)>>
                            /\ ~HasMsg(ret, DefaultMsg)
                       ELSE /\ ~HasMsg(ret, NoVersionsMsg)
                            /\ \A v \in DOMAIN ThePackage.versions :
                                  ErrorsOfVersion(v) = ExpectedOfVersion(v)
                            /\ ("default_version" \in DOMAIN TheMetadata
                                /\ TheMetadata.default_version
                                      \notin DOMAIN ThePackage.versions)
                                  => CountOf(ret, DefaultError) = 1

C8_Witness ==
    /\ MetadataParsed
    /\ MissingMetadataFields(TheMetadata) # <<>>
    /\ Len(TheVersionDirs) >= 2
    /\ ThePackage.versions[TheVersionDirs[1]].state = "absent"
    /\ ThePackage.versions[TheVersionDirs[2]].state = "json"
    /\ ErrorsOfVersion(TheVersionDirs[2]) # <<>>
    /\ "default_version" \in DOMAIN TheMetadata
    /\ CountOf(ret, DefaultError) = 1

MetadataMsgs ==
    {"metadata.json missing required field", "Invalid name", MismatchMsg,
     "Description exceeds 200 characters", "Unknown license",
     "Repository must have 'type' and 'url' fields", "Invalid repository type",
     "At least one target must be specified",
     "At least one maintainer is required", "Dependency missing 'name' field"}

VersionMsgs ==
    {"missing source.json", "invalid JSON in source.json",
     "source.json missing required field", "cmake_options must be an object"}

\* where the version v came in the iteration of the version directories
PositionOf(v) == CHOOSE k \in 1..Len(TheVersionDirs) : TheVersionDirs[k] = v

\* C9: in validate_package's list every metadata error precedes every
\* per-version error, per-version errors are grouped by version in the order
\* the version directories were iterated, and the default_version-not-found
\* error, when present, is the last element.
C9_DiscoveryOrder ==
    MetadataParsed =>
        \A i, j \in 1..Len(ret) :
            i < j =>
                /\ ret[j].msg \in MetadataMsgs => ret[i].msg \in MetadataMsgs
                /\ ret[i].msg # DefaultMsg
                /\ (ret[i].msg \in VersionMsgs /\ ret[j].msg \in VersionMsgs)
                      => PositionOf(ret[i].version) <= PositionOf(ret[j].version)

C9_Witness ==
    /\ MetadataParsed
    /\ Len(TheVersionDirs) >= 2
    /\ TheVersionDirs[1] = "3.0"
    /\ TheVersionDirs[2] = "2.0"
    /\ Len(ret) >= 4
    /\ ret[1].msg \in MetadataMsgs
    /\ ErrorsOfVersion("3.0") # <<>>
    /\ ErrorsOfVersion("2.0") # <<>>
    /\ ret[Len(ret)].msg = DefaultMsg

====
